---- MODULE Spec2Model ----
(***************************************************************************)
(* Model of the Solana RPC tool bridge of src/src/server.py: a catalog of  *)
(* tool coroutines, each of the shape                                      *)
(*                                                                         *)
(*     async with AsyncClient(rpc_url) as client:                          *)
(*         result = await client.<method>(<converted arguments>)           *)
(*         return f"<label>: {result}"                                     *)
(*                                                                         *)
(* An invocation is a task running one such coroutine.  The steps between  *)
(* two suspension points of the coroutine are one action.                  *)
(***************************************************************************)
EXTENDS Integers, Sequences, FiniteSets, TLC

VARIABLES inv, sessions, workload

vars == <<inv, sessions, workload>>

(***************************************************************************)
(* Bounds of the model.                                                    *)
(***************************************************************************)
NumTasks == 2
MaxList == 2

(***************************************************************************)
(* Values.  Every Python value the bridge handles is a record of one       *)
(* shape, so that any two of them can be compared: tag names the Python    *)
(* type, s holds the characters of a str, n an int, b the bytes of a bytes *)
(* / Pubkey / Signature, sl a list of str, bl a list of byte strings, msg   *)
(* the message of an exception.                                            *)
(***************************************************************************)
Val(tag, s, n, b, sl, bl) ==
    [tag |-> tag, s |-> s, n |-> n, b |-> b, sl |-> sl, bl |-> bl, msg |-> ""]

None == Val("None", <<>>, 0, <<>>, <<>>, <<>>)
PyStr(s) == Val("str", s, 0, <<>>, <<>>, <<>>)
PyInt(n) == Val("int", <<>>, n, <<>>, <<>>, <<>>)
PyBytes(b) == Val("bytes", <<>>, 0, b, <<>>, <<>>)
PyList(sl) == Val("list[str]", <<>>, 0, <<>>, sl, <<>>)

\* The exception a failed conversion raises.  from_string is handed the text
\* alone, so the error carries the reason and the text, and nothing else: it
\* does not know which parameter of the tool the text came from.
ValueError(reason, text) ==
    [Val("ValueError", text, 0, <<>>, <<>>, <<>>) EXCEPT !.msg = reason]

IsError(v) == v.tag = "ValueError"

\* The test `v is not None` in place of `v`: an empty string passes it.
IsNotNone(v) == v.tag # "None"

\* Python truthiness of an Optional[str]: None and "" are falsy.
Truthy(v) == ~(v.tag = "None" \/ (v.tag = "str" /\ v.s = <<>>))

(***************************************************************************)
(* Base-58 decoding, as Pubkey.from_string and Signature.from_string do    *)
(* it: every leading '1' is a zero byte, the remaining characters are the  *)
(* digits of a big-endian number, a character outside the alphabet is an   *)
(* error, and the decoded length must be the type's length.                *)
(***************************************************************************)
PubkeyLength == 32
SignatureLength == 64

Alphabet ==
    << "1", "2", "3", "4", "5", "6", "7", "8", "9",
       "A", "B", "C", "D", "E", "F", "G", "H", "J", "K", "L", "M", "N",
       "P", "Q", "R", "S", "T", "U", "V", "W", "X", "Y", "Z",
       "a", "b", "c", "d", "e", "f", "g", "h", "i", "j", "k", "m",
       "n", "o", "p", "q", "r", "s", "t", "u", "v", "w", "x", "y", "z" >>

InAlphabet(c) == \E k \in 1..Len(Alphabet) : Alphabet[k] = c

Digit(c) == (CHOOSE k \in 1..Len(Alphabet) : Alphabet[k] = c) - 1

\* The big-endian bytes of a number, without leading zero bytes.
RECURSIVE BytesOf(_)
BytesOf(k) ==
    IF k = 0 THEN <<>> ELSE Append(BytesOf(k \div 256), k % 256)

\* bytes * 58 + carry, on big-endian bytes without leading zero bytes.
RECURSIVE MulAdd(_, _)
MulAdd(bytes, carry) ==
    IF bytes = <<>>
    THEN BytesOf(carry)
    ELSE LET last == bytes[Len(bytes)]
             t == last * 58 + carry
         IN  Append(MulAdd(SubSeq(bytes, 1, Len(bytes) - 1), t \div 256),
                    t % 256)

RECURSIVE DecodeDigits(_, _)
DecodeDigits(text, acc) ==
    IF text = <<>>
    THEN acc
    ELSE DecodeDigits(Tail(text), MulAdd(acc, Digit(Head(text))))

\* The number of '1' characters the text starts with.
LeadingOnes(text) ==
    Cardinality({k \in 1..Len(text) : \A j \in 1..k : text[j] = "1"})

Zeros(k) == [j \in 1..k |-> 0]

ValidText(text) == \A k \in 1..Len(text) : InAlphabet(text[k])

B58Decode(text) ==
    Zeros(LeadingOnes(text))
    \o DecodeDigits(SubSeq(text, LeadingOnes(text) + 1, Len(text)), <<>>)

FromString(tag, length, v) ==
    IF ~ValidText(v.s)
    THEN ValueError("invalid base58", v.s)
    ELSE LET decoded == B58Decode(v.s)
         IN  IF Len(decoded) # length
             THEN ValueError("wrong size", v.s)
             ELSE Val(tag, <<>>, 0, decoded, <<>>, <<>>)

PubkeyFromString(v) == FromString("Pubkey", PubkeyLength, v)

SignatureFromString(v) == FromString("Signature", SignatureLength, v)

(***************************************************************************)
(* The catalog: the tools registered with @mcp.tool(), in source order.    *)
(***************************************************************************)
rpc_url == "https://api.mainnet-beta.solana.com"

Req(name) == [name |-> name, required |-> TRUE, default |-> None]
Opt(name, default) == [name |-> name, required |-> FALSE, default |-> default]

Base64 == <<"b", "a", "s", "e", "6", "4">>

NoArgTools ==
    { "get_block_height", "get_cluster_nodes", "get_epoch_info",
      "get_epoch_schedule", "get_genesis_hash", "get_identity",
      "get_inflation_governor", "get_inflation_rate", "get_largest_accounts",
      "get_latest_blockhash", "get_slot", "get_slot_leader", "get_supply",
      "get_transaction_count", "get_version", "get_vote_accounts",
      "is_connected", "get_first_available_block", "get_minimum_ledger_slot",
      "validator_exit" }

ArgTools ==
    { "get_balance", "get_transaction", "get_block", "get_block_time",
      "get_blocks", "get_minimum_balance_for_rent_exemption",
      "get_program_accounts", "get_recent_performance_samples",
      "get_signature_statuses", "get_token_account_balance",
      "get_token_largest_accounts", "get_block_commitment",
      "confirm_transaction", "get_account_info", "get_fee_for_message",
      "get_inflation_reward", "get_leader_schedule", "get_multiple_accounts",
      "get_signatures_for_address", "get_token_accounts_by_delegate",
      "get_token_accounts_by_owner", "get_token_supply", "request_airdrop",
      "send_transaction" }

Tools == NoArgTools \cup ArgTools

\* The parameters of a tool's def line, in order, with their defaults.
Params(op) ==
    CASE op = "get_balance" -> <<Req("address")>>
      [] op = "get_transaction" -> <<Req("hash")>>
      [] op = "get_block" -> <<Req("slot")>>
      [] op = "get_block_time" -> <<Req("slot")>>
      [] op = "get_blocks" -> <<Req("start_slot"), Opt("end_slot", None)>>
      [] op = "get_minimum_balance_for_rent_exemption" -> <<Req("size")>>
      [] op = "get_program_accounts" -> <<Req("program_id")>>
      [] op = "get_recent_performance_samples" -> <<Opt("limit", None)>>
      [] op = "get_signature_statuses" -> <<Req("signatures")>>
      [] op = "get_token_account_balance" -> <<Req("token_account")>>
      [] op = "get_token_largest_accounts" -> <<Req("mint")>>
      [] op = "get_block_commitment" -> <<Req("slot")>>
      [] op = "confirm_transaction" ->
            <<Req("tx_sig"), Opt("commitment", None)>>
      [] op = "get_account_info" ->
            <<Req("pubkey"), Opt("encoding", PyStr(Base64))>>
      [] op = "get_fee_for_message" ->
            <<Req("from_pubkey"), Req("to_pubkey"), Req("lamports")>>
      [] op = "get_inflation_reward" -> <<Req("pubkeys"), Opt("epoch", None)>>
      [] op = "get_leader_schedule" -> <<Opt("epoch", None)>>
      [] op = "get_multiple_accounts" ->
            <<Req("pubkeys"), Opt("encoding", PyStr(Base64))>>
      [] op = "get_signatures_for_address" ->
            <<Req("account"), Opt("before", None), Opt("until", None),
              Opt("limit", None)>>
      [] op = "get_token_accounts_by_delegate" ->
            <<Req("delegate"), Req("mint")>>
      [] op = "get_token_accounts_by_owner" -> <<Req("owner"), Req("mint")>>
      [] op = "get_token_supply" -> <<Req("mint")>>
      [] op = "request_airdrop" -> <<Req("address"), Req("lamports")>>
      [] op = "send_transaction" -> <<Req("txn")>>
      [] OTHER -> <<>>

ParamNames(op) == {Params(op)[k].name : k \in 1..Len(Params(op))}

OptionalNames(op) ==
    {Params(op)[k].name : k \in {j \in 1..Len(Params(op)) : ~Params(op)[j].required}}

DefaultOf(op, name) ==
    (CHOOSE q \in {Params(op)[k] : k \in 1..Len(Params(op))} : q.name = name).default

\* A parameter the caller left out is bound to zero.
BindZero(op, given) ==
    [name \in ParamNames(op) |->
        IF name \in DOMAIN given THEN given[name] ELSE PyInt(0)]

\* Python's binding of the call's arguments to the parameters: a parameter
\* the caller left out takes the default of the def line.
Bind(op, given) ==
    [name \in ParamNames(op) |->
        IF name \in DOMAIN given THEN given[name] ELSE DefaultOf(op, name)]

\* The client method a tool awaits.
Method(op) == IF op = "send_transaction" THEN "send_raw_transaction" ELSE op

\* The text before ": " in the string a tool returns.
Label(op) ==
    CASE op = "get_balance" -> "Balance of {address}"
      [] op = "get_transaction" -> "Transaction"
      [] op = "get_block" -> "Block"
      [] op = "get_block_height" -> "Block height"
      [] op = "get_block_time" -> "Block time"
      [] op = "get_blocks" -> "Blocks"
      [] op = "get_cluster_nodes" -> "Cluster nodes"
      [] op = "get_epoch_info" -> "Epoch info"
      [] op = "get_epoch_schedule" -> "Epoch schedule"
      [] op = "get_genesis_hash" -> "Genesis hash"
      [] op = "get_identity" -> "Node identity"
      [] op = "get_inflation_governor" -> "Inflation governor"
      [] op = "get_inflation_rate" -> "Inflation rate"
      [] op = "get_largest_accounts" -> "Largest accounts"
      [] op = "get_latest_blockhash" -> "Latest blockhash"
      [] op = "get_minimum_balance_for_rent_exemption" ->
            "Minimum balance for rent exemption"
      [] op = "get_program_accounts" -> "Program accounts"
      [] op = "get_recent_performance_samples" -> "Performance samples"
      [] op = "get_signature_statuses" -> "Signature statuses"
      [] op = "get_slot" -> "Current slot"
      [] op = "get_slot_leader" -> "Slot leader"
      [] op = "get_supply" -> "Supply info"
      [] op = "get_token_account_balance" -> "Token account balance"
      [] op = "get_token_largest_accounts" -> "Largest token accounts"
      [] op = "get_transaction_count" -> "Transaction count"
      [] op = "get_version" -> "Version info"
      [] op = "get_vote_accounts" -> "Vote accounts"
      [] op = "is_connected" -> "Connected"
      [] op = "get_block_commitment" -> "Block commitment"
      [] op = "confirm_transaction" -> "Transaction confirmation"
      [] op = "get_account_info" -> "Account info"
      [] op = "get_fee_for_message" -> "Message fee"
      [] op = "get_first_available_block" -> "First available block"
      [] op = "get_inflation_reward" -> "Inflation rewards"
      [] op = "get_leader_schedule" -> "Leader schedule"
      [] op = "get_minimum_ledger_slot" -> "Minimum ledger slot"
      [] op = "get_multiple_accounts" -> "Multiple accounts info"
      [] op = "get_signatures_for_address" -> "Signatures for address"
      [] op = "get_token_accounts_by_delegate" -> "Token accounts by delegate"
      [] op = "get_token_accounts_by_owner" -> "Token accounts by owner"
      [] op = "get_token_supply" -> "Token supply"
      [] op = "request_airdrop" -> "Airdrop request"
      [] op = "send_transaction" -> "Transaction sent"
      [] op = "validator_exit" -> "Validator exit request"

(***************************************************************************)
(* Conversion of the bound arguments to the arguments of the client call.  *)
(***************************************************************************)
Arg(slot, v) == [slot |-> slot, v |-> v]

FirstError(vs) == vs[CHOOSE k \in 1..Len(vs) :
                        IsError(vs[k]) /\ \A j \in 1..(k - 1) : ~IsError(vs[j])]

\* The list is converted through a set: an element that occurs again is
\* dropped.
FromStringsUnique(tag, length, v) ==
    LET first == {k \in 1..Len(v.sl) : \A j \in 1..(k - 1) : v.sl[j] # v.sl[k]}
        kept == [k \in 1..Cardinality(first) |->
                    v.sl[CHOOSE m \in first :
                            Cardinality({j \in first : j <= m}) = k]]
        each == [k \in 1..Len(kept) |-> FromString(tag, length, PyStr(kept[k]))]
    IN  IF \E k \in 1..Len(each) : IsError(each[k])
        THEN each[CHOOSE k \in 1..Len(each) : IsError(each[k])]
        ELSE Val("list", <<>>, 0, <<>>, <<>>, [k \in 1..Len(each) |-> each[k].b])

\* [X.from_string(e) for e in v]: the elements in order, or the error of
\* the first element that does not convert.
FromStrings(tag, length, v) ==
    LET each == [k \in 1..Len(v.sl) |-> FromString(tag, length, PyStr(v.sl[k]))]
    IN  IF \E k \in 1..Len(each) : IsError(each[k])
        THEN FirstError(each)
        ELSE Val("list", <<>>, 0, <<>>, <<>>, [k \in 1..Len(each) |-> each[k].b])

\* X.from_string(v) if v else None
IfGiven(conv, v) == IF Truthy(v) THEN conv ELSE None

\* Commitment is a str-based NewType: Commitment(v) is v.
Commitment(v) == v

\* Message([transfer(TransferParams(from_pubkey, to_pubkey, lamports))])
TransferMessage(from, to, lamports) ==
    IF IsError(from) THEN from
    ELSE IF IsError(to) THEN to
    ELSE Val("Message", <<>>, lamports.n, <<>>, <<>>, <<from.b, to.b>>)

TokenAccountOpts(mint) ==
    IF IsError(mint) THEN mint
    ELSE Val("TokenAccountOpts", <<>>, 0, mint.b, <<>>, <<>>)

\* The arguments of the client call a tool makes, in evaluation order.
CallArgs(op, a) ==
    CASE op = "get_balance" -> <<Arg("pubkey", PubkeyFromString(a["address"]))>>
      [] op = "get_transaction" ->
            <<Arg("tx_sig", SignatureFromString(a["hash"]))>>
      [] op = "get_block" -> <<Arg("slot", a["slot"])>>
      [] op = "get_block_time" -> <<Arg("slot", a["slot"])>>
      [] op = "get_blocks" ->
            <<Arg("start_slot", a["start_slot"]), Arg("end_slot", a["end_slot"])>>
      [] op = "get_minimum_balance_for_rent_exemption" ->
            <<Arg("usize", a["size"])>>
      [] op = "get_program_accounts" ->
            <<Arg("pubkey", PubkeyFromString(a["program_id"]))>>
      [] op = "get_recent_performance_samples" -> <<Arg("limit", a["limit"])>>
      [] op = "get_signature_statuses" ->
            <<Arg("signatures",
                  FromStrings("Signature", SignatureLength, a["signatures"]))>>
      [] op = "get_token_account_balance" ->
            <<Arg("pubkey", PubkeyFromString(a["token_account"]))>>
      [] op = "get_token_largest_accounts" ->
            <<Arg("pubkey", PubkeyFromString(a["mint"]))>>
      [] op = "get_block_commitment" -> <<Arg("slot", a["slot"])>>
      [] op = "confirm_transaction" ->
            <<Arg("tx_sig", SignatureFromString(a["tx_sig"])),
              Arg("commitment",
                  IfGiven(Commitment(a["commitment"]), a["commitment"]))>>
      [] op = "get_account_info" ->
            <<Arg("pubkey", PubkeyFromString(a["pubkey"])),
              Arg("encoding", a["encoding"])>>
      [] op = "get_fee_for_message" ->
            <<Arg("message",
                  TransferMessage(PubkeyFromString(a["from_pubkey"]),
                                  PubkeyFromString(a["to_pubkey"]),
                                  a["lamports"]))>>
      [] op = "get_inflation_reward" ->
            <<Arg("pubkeys", FromStrings("Pubkey", PubkeyLength, a["pubkeys"])),
              Arg("epoch", a["epoch"])>>
      [] op = "get_leader_schedule" -> <<Arg("epoch", a["epoch"])>>
      [] op = "get_multiple_accounts" ->
            <<Arg("pubkeys", FromStrings("Pubkey", PubkeyLength, a["pubkeys"])),
              Arg("encoding", a["encoding"])>>
      [] op = "get_signatures_for_address" ->
            <<Arg("account", PubkeyFromString(a["account"])),
              Arg("before",
                  IfGiven(SignatureFromString(a["before"]), a["before"])),
              Arg("until",
                  IfGiven(SignatureFromString(a["until"]), a["until"])),
              Arg("limit", a["limit"])>>
      [] op = "get_token_accounts_by_delegate" ->
            <<Arg("owner", PubkeyFromString(a["delegate"])),
              Arg("opts", TokenAccountOpts(PubkeyFromString(a["mint"])))>>
      [] op = "get_token_accounts_by_owner" ->
            <<Arg("owner", PubkeyFromString(a["owner"])),
              Arg("opts", TokenAccountOpts(PubkeyFromString(a["mint"])))>>
      [] op = "get_token_supply" ->
            <<Arg("pubkey", PubkeyFromString(a["mint"]))>>
      [] op = "request_airdrop" ->
            <<Arg("pubkey", PubkeyFromString(a["address"])),
              Arg("lamports", a["lamports"])>>
      [] op = "send_transaction" -> <<Arg("txn", a["txn"])>>
      [] OTHER -> <<>>

ConversionFails(args) == \E k \in 1..Len(args) : IsError(args[k].v)

\* The exception the conversions raise: that of the first one to fail.
ConversionError(args) == FirstError([k \in 1..Len(args) |-> args[k].v])

(***************************************************************************)
(* The requests the Tool Host submits: a tool and the arguments the caller *)
(* supplied for it (a parameter left out is not in the map).               *)
(***************************************************************************)
Ones(k) == [j \in 1..k |-> "1"]

Empty == <<>>
SystemProgram == Ones(PubkeyLength)
OtherAddress == Ones(PubkeyLength - 1) \o <<"2">>
TooLong == Ones(PubkeyLength + 1)
NotBase58 == <<"0", "O", "I", "l">>
DefaultSignature == Ones(SignatureLength)
OtherSignature == Ones(SignatureLength - 1) \o <<"2">>

AddressSamples ==
    {PyStr(s) : s \in {SystemProgram, OtherAddress, TooLong, NotBase58, Empty}}

SignatureSamples ==
    {PyStr(s) : s \in {DefaultSignature, OtherSignature, SystemProgram,
                       NotBase58, Empty}}

IntSamples == {PyInt(0), PyInt(100)}

EncodingSamples ==
    {PyStr(s) : s \in {<<"b", "a", "s", "e", "5", "8">>, Base64,
                       <<"j", "s", "o", "n", "P", "a", "r", "s", "e", "d">>,
                       <<"h", "e", "x">>}}

CommitmentSamples ==
    {PyStr(s) : s \in {<<"f", "i", "n", "a", "l", "i", "z", "e", "d">>,
                       <<"c", "o", "n", "f", "i", "r", "m", "e", "d">>,
                       <<"p", "r", "o", "c", "e", "s", "s", "e", "d">>,
                       <<"m", "a", "x">>, Empty}}

BytesSamples == {PyBytes(<<>>), PyBytes(<<1, 2, 3>>)}

RECURSIVE ListsOver(_, _)
ListsOver(S, k) ==
    IF k = 0 THEN {<<>>}
    ELSE ListsOver(S, k - 1)
         \cup {Append(l, e.s) : l \in {m \in ListsOver(S, k - 1) : Len(m) = k - 1},
                                e \in S}

\* The parameters a tool hands to Pubkey.from_string, and those it hands to
\* Signature.from_string.
AddressNames ==
    {"address", "program_id", "token_account", "mint", "pubkey", "from_pubkey",
     "to_pubkey", "account", "delegate", "owner"}

SignatureNames == {"hash", "tx_sig", "before", "until"}

Samples(name) ==
    CASE name \in AddressNames -> AddressSamples
      [] name \in SignatureNames -> SignatureSamples
      [] name \in {"slot", "start_slot", "end_slot", "size", "limit", "epoch",
                   "lamports"} -> IntSamples
      [] name = "pubkeys" -> {PyList(l) : l \in ListsOver(AddressSamples, MaxList)}
      [] name = "signatures" ->
            {PyList(l) : l \in ListsOver(SignatureSamples, MaxList)}
      [] name = "encoding" -> EncodingSamples
      [] name = "commitment" -> CommitmentSamples
      [] name = "txn" -> BytesSamples

RECURSIVE Givens(_)
Givens(ps) ==
    IF ps = <<>> THEN {<<>>}
    ELSE LET p == Head(ps)
             rest == Givens(Tail(ps))
         IN  {(p.name :> v) @@ g : v \in Samples(p.name), g \in rest}
             \cup (IF p.required THEN {} ELSE rest)

Request(op, given) == [op |-> op, given |-> given]

CatalogRequests == UNION {{Request(op, g) : g \in Givens(Params(op))} : op \in Tools}

ConcurrentRequests ==
    { Request("get_block_height", <<>>),
      Request("get_balance", "address" :> PyStr(SystemProgram)),
      Request("get_account_info", "pubkey" :> PyStr(TooLong)),
      Request("send_transaction", "txn" :> PyBytes(<<1, 2, 3>>)) }

Requests(w) == IF w = "catalog" THEN CatalogRequests ELSE ConcurrentRequests

(***************************************************************************)
(* State.  inv[i] is invocation i: where its coroutine stands (pc), the    *)
(* request, the client it holds, the client calls it made, and how it      *)
(* ended.  sessions[s] is the AsyncClient object s.  log is the history of *)
(* the steps the coroutine took.                                           *)
(***************************************************************************)
Tasks == DOMAIN inv

NoSession == 0

NoOutcome ==
    [kind |-> "none", exc |-> "", label |-> "", subject |-> None,
     payload |-> "", error |-> None]

\* return f"<label>: {result}"
Returned(op, a, result) ==
    [kind |-> "return", exc |-> "", label |-> Label(op),
     subject |-> IF op = "get_balance" THEN a["address"] ELSE None,
     payload |-> result, error |-> None]

\* An exception leaving the coroutine.
Raised(exc, error) ==
    [kind |-> "raise", exc |-> exc, label |-> "", subject |-> None,
     payload |-> "", error |-> error]

Idle ==
    [pc |-> "idle", op |-> "", given |-> <<>>, client |-> NoSession,
     pending |-> NoOutcome, outcome |-> NoOutcome, calls |-> <<>>, log |-> <<>>]

Unused ==
    [state |-> "unused", owner |-> NoSession, endpoint |-> "", users |-> {},
     releases |-> 0]

\* One invocation, of any tool of the catalog with any of the sample
\* arguments.
Init ==
    /\ workload = "catalog"
    /\ inv = [i \in {1} |-> Idle]
    /\ sessions = [s \in {1} |-> Unused]

\* NumTasks invocations running concurrently, each of one of a few requests.
InitConcurrent ==
    /\ workload = "concurrent"
    /\ inv = [i \in 1..NumTasks |-> Idle]
    /\ sessions = [s \in 1..NumTasks |-> Unused]

SessionUnchanged == UNCHANGED <<sessions, workload>>

\* The Tool Host calls the tool: a task is created for its coroutine.
Invoke(i, r) ==
    /\ inv[i].pc = "idle"
    /\ inv' = [inv EXCEPT ![i].pc = "start", ![i].op = r.op, ![i].given = r.given]
    /\ SessionUnchanged

\* One client object, made once and used by every invocation.
SharedSession(i) == 1

\* AsyncClient(rpc_url) makes a new object on every evaluation: the object
\* invocation i makes is no other invocation's.
NewSession(i) == i

\* async with AsyncClient(rpc_url) as client: the session is entered.
Acquire(i) ==
    /\ inv[i].pc = "start"
    /\ LET s == NewSession(i)
       IN  /\ sessions' = [sessions EXCEPT ![s] =
                  [state |-> "open", owner |-> i, endpoint |-> rpc_url,
                   users |-> {}, releases |-> 0]]
           /\ inv' = [inv EXCEPT ![i].pc = "body", ![i].client = s,
                                 ![i].log = Append(@, "open")]
    /\ UNCHANGED workload

\* Entering the session raises: the body does not run, __aexit__ is not called.
AcquireFail(i) ==
    /\ inv[i].pc = "start"
    /\ inv' = [inv EXCEPT ![i].pc = "done",
                          ![i].outcome = Raised("TransportError", None)]
    /\ SessionUnchanged

\* A body left by an exception ends the coroutine at once: what a client
\* closed by hand at the end of the body, outside any finally, would do.
AfterBodyNoFinally(kind) == IF kind = "return" THEN "exit" ELSE "done"

\* Where the coroutine goes when the body of the async with is left, by a
\* return or by an exception: to __aexit__.
AfterBody(kind) == "exit"

\* The body up to its await: the arguments are converted, and either a
\* conversion raises or the client method is called.
Body(i) ==
    /\ inv[i].pc = "body"
    /\ LET t == inv[i]
           args == CallArgs(t.op, Bind(t.op, t.given))
       IN  IF ConversionFails(args)
           THEN /\ inv' = [inv EXCEPT
                      ![i].pc = AfterBody("raise"),
                      ![i].pending = Raised("ValueError", ConversionError(args)),
                      ![i].log = Append(@, "convert")]
                /\ UNCHANGED sessions
           ELSE /\ inv' = [inv EXCEPT
                      ![i].pc = "awaiting",
                      ![i].calls = Append(@, [method |-> Method(t.op),
                                              args |-> args,
                                              session |-> t.client]),
                      ![i].log = @ \o <<"convert", "call">>]
                /\ sessions' = [sessions EXCEPT ![t.client].users = @ \cup {i}]
    /\ UNCHANGED workload

\* How the awaited client call can end: with the node's result (an empty
\* result among them), with the exception the client raises for an error
\* the node reported, or with the exception of a failed transport.
ReplyKinds == {"result", "rpc_error", "transport_error"}

\* A transport error is answered by calling the client once more.
OnReplyRetry(t, kind) ==
    IF kind = "result"
    THEN [t EXCEPT !.pc = AfterBody("return"),
                   !.pending = Returned(t.op, Bind(t.op, t.given), "result"),
                   !.log = Append(@, "render")]
    ELSE IF kind = "transport_error" /\ Len(t.calls) < 2
         THEN [t EXCEPT !.calls = Append(@, t.calls[1])]
         ELSE [t EXCEPT !.pc = AfterBody("raise"),
                        !.pending = Raised(IF kind = "rpc_error" THEN "RPCException"
                                           ELSE "TransportError", None)]

\* What the awaited client call does with the node's reply.
OnReply(t, kind) ==
    IF kind = "result"
    THEN [t EXCEPT !.pc = AfterBody("return"),
                   !.pending = Returned(t.op, Bind(t.op, t.given), "result"),
                   !.log = Append(@, "render")]
    ELSE [t EXCEPT !.pc = AfterBody("raise"),
                   !.pending = Raised(IF kind = "rpc_error" THEN "RPCException"
                                      ELSE "TransportError", None)]

\* The awaited client call ends: with the node's result, with the error the
\* node reported, or with a transport error.
Reply(i, kind) ==
    /\ inv[i].pc = "awaiting"
    /\ inv' = [inv EXCEPT ![i] = OnReply(inv[i], kind)]
    /\ SessionUnchanged

\* The Tool Host cancels the task while the client call is in flight:
\* CancelledError is raised at the await of the body, the one place where
\* the body is suspended.
Cancel(i) ==
    /\ inv[i].pc = "awaiting"
    /\ inv' = [inv EXCEPT ![i].pc = AfterBody("raise"),
                          ![i].pending = Raised("CancelledError", None)]
    /\ SessionUnchanged

\* The client is closed a second time: what an explicit close() next to the
\* async with would do.
ClosedTwice(session) ==
    [session EXCEPT !.state = "closed", !.releases = @ + 2]

\* AsyncClient.close(), called by __aexit__.  releases counts the calls of
\* close: a close that raises has been called all the same, and the client
\* is not used again.
Closed(session) ==
    [session EXCEPT !.state = "closed", !.releases = @ + 1]

\* How the coroutine ends once __aexit__ has run: an exception raised by
\* __aexit__ replaces the return value or the exception of the body.
AfterExit(pending, ok) == IF ok THEN pending ELSE Raised("ReleaseError", None)

\* __aexit__: the client is closed, and the coroutine ends.
Exit(i, ok) ==
    /\ inv[i].pc = "exit"
    /\ sessions' = [sessions EXCEPT ![inv[i].client] = Closed(@)]
    /\ inv' = [inv EXCEPT ![i].pc = "done",
                          ![i].outcome = AfterExit(inv[i].pending, ok),
                          ![i].log = Append(@, "release")]
    /\ UNCHANGED workload

\* __aexit__ closes the client and returns.
Release(i) == Exit(i, TRUE)

\* __aexit__ raises while closing the client.
ReleaseRaises(i) == Exit(i, FALSE)

Next ==
    \/ \E i \in Tasks : \E r \in Requests(workload) : Invoke(i, r)
    \/ \E i \in Tasks : Acquire(i)
    \/ \E i \in Tasks : AcquireFail(i)
    \/ \E i \in Tasks : Body(i)
    \/ \E i \in Tasks : \E kind \in ReplyKinds : Reply(i, kind)
    \/ \E i \in Tasks : Cancel(i)
    \/ \E i \in Tasks : Release(i)
    \/ \E i \in Tasks : ReleaseRaises(i)

Spec == Init /\ [][Next]_vars

SpecConcurrent == InitConcurrent /\ [][Next]_vars

(***************************************************************************)
(* Claims.                                                                 *)
(***************************************************************************)
Range(f) == {f[k] : k \in DOMAIN f}

Finished(i) == inv[i].pc = "done"

Acquired(i) == inv[i].client # NoSession

\* C1: the session an invocation opened is released exactly once on every
\* exit path (result, remote error, transport error, conversion failure,
\* cancellation): no session is released twice, a session is closed exactly
\* when it was released once, a finished invocation's session is closed, and
\* every open session belongs to an invocation still running.
ReleasedExactlyOnce ==
    /\ \A s \in DOMAIN sessions :
          /\ sessions[s].releases <= 1
          /\ sessions[s].state = "closed" <=> sessions[s].releases = 1
          /\ sessions[s].state = "open" =>
                \E i \in Tasks : inv[i].client = s /\ ~Finished(i)
    /\ \A i \in Tasks :
          Finished(i) /\ Acquired(i) =>
             /\ sessions[inv[i].client].state = "closed"
             /\ sessions[inv[i].client].releases = 1

\* C1 witness: an invocation cancelled while its client call was in flight
\* has finished, and its session was released once.
CancelledAndReleased ==
    \E i \in Tasks :
        /\ Finished(i)
        /\ inv[i].outcome.exc = "CancelledError"
        /\ sessions[inv[i].client].releases = 1

\* The text decodes to exactly `length` bytes under the base-58 alphabet.
Decodes(text, length) == ValidText(text) /\ Len(B58Decode(text)) = length

\* The Address and Signature parameters of invocation i whose supplied text
\* does not decode to the type's length.
MalformedParams(i) ==
    {p \in DOMAIN inv[i].given :
        \/ p \in AddressNames /\ ~Decodes(inv[i].given[p].s, PubkeyLength)
        \/ p \in SignatureNames /\ ~Decodes(inv[i].given[p].s, SignatureLength)}

\* The error names the parameter.
Mentions(error, p) == error.msg = p

\* C2: for every Address or Signature parameter supplied with text that does
\* not decode to the type's length, the invocation makes no client call and,
\* once its body is left, has failed with a validation error that names the
\* parameter.
MalformedInputRejected ==
    \A i \in Tasks : \A p \in MalformedParams(i) :
        /\ inv[i].calls = <<>>
        /\ inv[i].pc \in {"exit", "done"} /\ Acquired(i) =>
              /\ inv[i].pending.kind = "raise"
              /\ inv[i].pending.exc = "ValueError"
              /\ Mentions(inv[i].pending.error, p)

\* The failure kinds of the error taxonomy, by the exception that signals them.
FailureKind(exc) ==
    CASE exc = "ValueError" -> "validation"
      [] exc = "TransportError" -> "transport"
      [] exc = "RPCException" -> "remote"
      [] OTHER -> ""

\* C3: an invocation whose body failed (validation, transport or remote
\* failure) ends by returning a string that tells which of the three kinds
\* of failure occurred, and never by an exception leaving the coroutine.
FailuresReturnStrings ==
    \A i \in Tasks :
        Finished(i) /\ FailureKind(inv[i].pending.exc) # "" =>
            /\ inv[i].outcome.kind = "return"
            /\ inv[i].outcome.payload = FailureKind(inv[i].pending.exc)

\* The optional parameters whose default is None.
NoneDefaulted == {"end_slot", "limit", "epoch", "before", "until", "commitment"}

\* The argument a client call passes in a slot.
ArgOf(call, slot) ==
    (CHOOSE x \in Range(call.args) : x.slot = slot).v

\* C4: a client call made for an invocation that left an optional parameter
\* out passes None for it, not zero and not an empty value.
OmittedMeansNone ==
    \A i \in Tasks : \A k \in 1..Len(inv[i].calls) :
        \A p \in (OptionalNames(inv[i].op) \cap NoneDefaulted) \ DOMAIN inv[i].given :
            ArgOf(inv[i].calls[k], p) = None

\* C4 witness: get_blocks(start_slot=100) has called the client with
\* start_slot 100 and end_slot None.
GetBlocksOpenEnded ==
    \E i \in Tasks :
        /\ inv[i].op = "get_blocks"
        /\ DOMAIN inv[i].given = {"start_slot"}
        /\ Len(inv[i].calls) = 1
        /\ ArgOf(inv[i].calls[1], "start_slot") = PyInt(100)
        /\ ArgOf(inv[i].calls[1], "end_slot") = None

\* The arguments of invocation i passed conversion.
Converted(i) ==
    "convert" \in Range(inv[i].log) /\ inv[i].pending.exc # "ValueError"

RECURSIVE CallsUpTo(_)
CallsUpTo(k) == IF k = 0 THEN 0 ELSE Len(inv[k].calls) + CallsUpTo(k - 1)

\* The client calls made by all invocations.
TotalCalls == CallsUpTo(Cardinality(Tasks))

\* C5: an invocation makes exactly one client call once its arguments have
\* passed conversion and none otherwise, whatever the reply (no retry) and
\* whatever the other invocations asked (no deduplication), so the calls
\* made are as many as the invocations whose arguments passed conversion.
OneCallPerInvocation ==
    /\ \A i \in Tasks : Len(inv[i].calls) = IF Converted(i) THEN 1 ELSE 0
    /\ TotalCalls = Cardinality({i \in Tasks : Converted(i)})

\* C5 witness: two identical send_transaction invocations have finished,
\* one of them on a transport error, and two submissions were made.
TwoSubmissions ==
    \E i, j \in Tasks :
        /\ i # j
        /\ inv[i].op = "send_transaction" /\ inv[j].op = "send_transaction"
        /\ inv[i].given = inv[j].given
        /\ Finished(i) /\ Finished(j)
        /\ inv[i].pending.exc = "TransportError"
        /\ Len(inv[i].calls) = 1 /\ Len(inv[j].calls) = 1
        /\ inv[i].calls[1].args = inv[j].calls[1].args
        /\ TotalCalls = 2

\* C6: get_signature_statuses makes no client call when an element of the
\* list is malformed; with n well-formed elements it makes, once they are
\* converted, exactly one call, whose list has length n and holds at
\* position k the bytes the k-th input decodes to.
SignatureListPreserved ==
    \A i \in Tasks :
        inv[i].op = "get_signature_statuses" =>
            LET sigs == inv[i].given["signatures"].sl
                wellFormed == \A k \in 1..Len(sigs) : Decodes(sigs[k], SignatureLength)
            IN  /\ ~wellFormed => inv[i].calls = <<>>
                /\ wellFormed /\ "convert" \in Range(inv[i].log) =>
                      /\ Len(inv[i].calls) = 1
                      /\ LET sent == ArgOf(inv[i].calls[1], "signatures").bl
                         IN  /\ Len(sent) = Len(sigs)
                             /\ \A k \in 1..Len(sigs) : sent[k] = B58Decode(sigs[k])

\* C6 witness: get_signature_statuses with two different signatures has made
\* its call, with a list of two different values.
TwoSignaturesSent ==
    \E i \in Tasks :
        /\ inv[i].op = "get_signature_statuses"
        /\ inv[i].given["signatures"].sl = <<DefaultSignature, OtherSignature>>
        /\ Len(inv[i].calls) = 1
        /\ Len(ArgOf(inv[i].calls[1], "signatures").bl) = 2
        /\ ArgOf(inv[i].calls[1], "signatures").bl[1]
              # ArgOf(inv[i].calls[1], "signatures").bl[2]

\* The values of the two enumerations.
Encodings ==
    {PyStr(s) : s \in {<<"b", "a", "s", "e", "5", "8">>, Base64,
                       <<"j", "s", "o", "n", "P", "a", "r", "s", "e", "d">>}}

Commitments ==
    {PyStr(s) : s \in {<<"f", "i", "n", "a", "l", "i", "z", "e", "d">>,
                       <<"c", "o", "n", "f", "i", "r", "m", "e", "d">>,
                       <<"p", "r", "o", "c", "e", "s", "s", "e", "d">>}}

\* Invocation i was given an encoding or a commitment outside its enumeration.
OutOfEnumeration(i) ==
    \/ /\ "encoding" \in DOMAIN inv[i].given
       /\ inv[i].given["encoding"] \notin Encodings
    \/ /\ "commitment" \in DOMAIN inv[i].given
       /\ inv[i].given["commitment"] \notin Commitments

\* C7: an invocation given an encoding or a commitment outside its
\* enumeration makes no client call and, once its body is left, has failed
\* with a validation error.
EnumerationEnforced ==
    \A i \in Tasks :
        OutOfEnumeration(i) =>
            /\ inv[i].calls = <<>>
            /\ inv[i].pc \in {"exit", "done"} /\ Acquired(i) =>
                  inv[i].pending.exc = "ValueError"

\* Every session is used by the invocation that opened it and by no other,
\* no two invocations hold the same client, and every session is bound to
\* the one configured endpoint.
SessionsPrivate ==
    /\ \A s \in DOMAIN sessions :
          /\ sessions[s].users \subseteq {sessions[s].owner}
          /\ sessions[s].state # "unused" => sessions[s].endpoint = rpc_url
    /\ \A i \in Tasks :
          /\ Acquired(i) => sessions[inv[i].client].owner = i
          /\ \A k \in 1..Len(inv[i].calls) : inv[i].calls[k].session = inv[i].client
          /\ \A j \in Tasks \ {i} : Acquired(i) => inv[i].client # inv[j].client

\* A step of one invocation (a cancellation and a failure among them) leaves
\* every other invocation, and the session it holds, as they were.
StepIsLocal ==
    \A i \in Tasks :
        inv'[i] # inv[i] =>
            \A j \in Tasks \ {i} :
                /\ inv'[j] = inv[j]
                /\ Acquired(j) => sessions'[inv[j].client] = sessions[inv[j].client]

\* C8: under any interleaving of concurrent invocations, each uses only the
\* session it opened (no session has two users), and no step of one
\* invocation releases another's session or changes another's state or
\* result.
InvocationsIsolated == []SessionsPrivate /\ [][StepIsLocal]_vars

\* C8 witness: one invocation was cancelled and has finished while another's
\* client call is still in flight on its own open session.
CancelledBesideRunning ==
    \E i, j \in Tasks :
        /\ i # j
        /\ Finished(i) /\ inv[i].outcome.exc = "CancelledError"
        /\ inv[j].pc = "awaiting"
        /\ sessions[inv[j].client].state = "open"
        /\ sessions[inv[j].client].users = {j}

\* C9: an invocation that opened a session ends with the outcome of its body
\* (the returned string, or the body's exception) whether or not releasing
\* the session failed.
ReleaseFailureSwallowed ==
    \A i \in Tasks :
        Finished(i) /\ Acquired(i) => inv[i].outcome = inv[i].pending

\* The events of the log that are in `order` occur in that order, each once.
InOrder(log, order) ==
    /\ \A j, k \in 1..Len(log) : log[j] = log[k] => j = k
    /\ \A j, k \in 1..Len(log) : \A a, b \in 1..Len(order) :
          log[j] = order[a] /\ log[k] = order[b] /\ a < b => j < k

\* C10 as stated: the steps of an invocation occur in the order convert,
\* open, call, render, release, so that the conversion runs with no session
\* open, and a validation failure happens with no session acquired.
ValidateBeforeOpen ==
    \A i \in Tasks :
        /\ InOrder(inv[i].log, <<"convert", "open", "call", "render", "release">>)
        /\ inv[i].pending.exc = "ValueError" => ~Acquired(i)

\* C10 as amended: the steps of an invocation occur in the order open,
\* convert, call, render, release, none without the ones before it (a
\* release needs only the open); the session is open when the conversion is
\* about to run, and a validation failure happens with the session acquired
\* and no client call made, the session being closed when the invocation
\* has finished.
OpenBeforeValidate ==
    \A i \in Tasks :
        LET log == inv[i].log
        IN  /\ InOrder(log, <<"open", "convert", "call", "render", "release">>)
            /\ "convert" \in Range(log) => "open" \in Range(log)
            /\ "call" \in Range(log) => "convert" \in Range(log)
            /\ "render" \in Range(log) => "call" \in Range(log)
            /\ "release" \in Range(log) => "open" \in Range(log)
            /\ inv[i].pc = "body" =>
                  Acquired(i) /\ sessions[inv[i].client].state = "open"
            /\ inv[i].pending.exc = "ValueError" =>
                  /\ Acquired(i)
                  /\ inv[i].calls = <<>>
                  /\ Finished(i) => sessions[inv[i].client].state = "closed"

\* C10 witness: an invocation whose conversion failed has finished, having
\* opened the session, converted, and released, in that order.
ValidationFailedInsideSession ==
    \E i \in Tasks :
        /\ Finished(i)
        /\ inv[i].pending.exc = "ValueError"
        /\ inv[i].log = <<"open", "convert", "release">>

\* The optional string parameters a tool tests for truth before using them.
TruthTested(op) ==
    CASE op = "get_signatures_for_address" -> {"before", "until"}
      [] op = "confirm_transaction" -> {"commitment"}
      [] OTHER -> {}

\* The truth-tested parameters of invocation i supplied as the empty string.
SuppliedEmpty(i) ==
    {p \in TruthTested(inv[i].op) \cap DOMAIN inv[i].given :
        inv[i].given[p] = PyStr(Empty)}

\* The supplied arguments of invocation i with those parameters left out.
WithoutEmpty(i) ==
    [p \in DOMAIN inv[i].given \ SuppliedEmpty(i) |-> inv[i].given[p]]

\* C11: for before and until of get_signatures_for_address and commitment of
\* confirm_transaction, an empty string is handled as the omitted parameter
\* is: once the body has converted, the invocation has made the client call,
\* or failed, exactly as it would with those parameters left out (so the only
\* validation failure is that of another parameter), the client call passing
\* None for them; a non-empty before or until reaches the client call only
\* as the Signature it decodes to, and when it does not decode no call is
\* made.
EmptyMeansOmitted ==
    \A i \in Tasks :
        "convert" \in Range(inv[i].log) =>
            LET t == inv[i]
                expected == CallArgs(t.op, Bind(t.op, WithoutEmpty(i)))
            IN  /\ SuppliedEmpty(i) # {} =>
                      IF ConversionFails(expected)
                      THEN /\ t.calls = <<>>
                           /\ t.pending.error = ConversionError(expected)
                      ELSE /\ Len(t.calls) = 1
                           /\ t.calls[1].args = expected
                           /\ \A p \in SuppliedEmpty(i) :
                                 ArgOf(t.calls[1], p) = None
                /\ t.op = "get_signatures_for_address" =>
                      \A p \in {"before", "until"} \cap DOMAIN t.given :
                          t.given[p] # PyStr(Empty) =>
                              /\ ~Decodes(t.given[p].s, SignatureLength) =>
                                    t.calls = <<>>
                              /\ t.calls # <<>> =>
                                    /\ ArgOf(t.calls[1], p).tag = "Signature"
                                    /\ ArgOf(t.calls[1], p).b = B58Decode(t.given[p].s)

\* C11 witness: get_signatures_for_address with before "" and a well-formed
\* until has made its call, passing None for before and the decoded
\* Signature for until.
EmptyBeforeSentAsNone ==
    \E i \in Tasks :
        /\ inv[i].op = "get_signatures_for_address"
        /\ DOMAIN inv[i].given = {"account", "before", "until"}
        /\ inv[i].given["before"] = PyStr(Empty)
        /\ inv[i].given["until"] = PyStr(OtherSignature)
        /\ Len(inv[i].calls) = 1
        /\ ArgOf(inv[i].calls[1], "before") = None
        /\ ArgOf(inv[i].calls[1], "until").tag = "Signature"

====
